---- MODULE Spec2Model ----
(***************************************************************************)
(* The WExplore region tree (wepy/resampling/resamplers/wexplore.py):      *)
(* RegionTree construction, assign, place_walkers, clear_walkers,          *)
(* balance_tree and WExploreResampler.resample, as state machine.          *)
(* The tree is built with two levels, max_n_regions = (2, 2), or (for      *)
(* placement and assign) with one level, max_n_regions = (2,); every       *)
(* region has size 0.                                                      *)
(*                                                                         *)
(* Walker states are points on a line, the distance metric is the absolute *)
(* difference of two points.  Weights are integers (multiples of a weight  *)
(* unit), so w / n >= pmin is w >= pmin * n.  Walker and child indices are *)
(* 0-based as in the source; sequences are 1-based, so index i of a Python *)
(* list is element i + 1 of the sequence.                                  *)
(*                                                                         *)
(* A call that raises leaves the object in the state it had when the       *)
(* exception was raised; err holds the exception's type ("none" when the   *)
(* call returned).  self.node is the networkx (2.0-2.3) attribute view.    *)
(***************************************************************************)
EXTENDS Integers, Sequences, FiniteSets, TLC

\* ---------------------------------------------------------------- bounds
MaxPos == 2          \* walker states are the points 0..MaxPos
MaxWalkers == 2      \* largest ensemble handed to place_walkers
MaxPlaced == 2       \* walkers placed in one behaviour, over all ensembles
MaxDelta == 1        \* |delta_walkers| of a balance_tree call

\* ------------------------------------------------- construction parameters
TwoLevels == [max_n_regions |-> <<2, 2>>, max_region_sizes |-> <<0, 0>>]
OneLevel == [max_n_regions |-> <<2>>, max_region_sizes |-> <<0>>]
pmin == 1
pmax == 2
init_state == 0
IntMaxNumWalkers == 2      \* max_num_walkers when a number is passed

\* a Python value that may be None: None is <<>>, the value v is <<v>>
None == <<>>
Some(v) == <<v>>
Val(o) == o[1]

ROOT_NODE == <<>>

\* ------------------------------------------------- the external distance
Image(state) == state
image_distance(a, b) == IF a >= b THEN a - b ELSE b - a

VARIABLES
    max_n_regions,       \* self._max_n_regions
    max_region_sizes,    \* self._max_region_sizes
    nodes,               \* self.nodes: node ids in insertion order
    node,                \* self.node: node id -> attributes
    images,              \* self._images
    regions,             \* self._regions
    walker_weights,      \* self._walker_weights
    walker_assignments,  \* self._walker_assignments
    max_num_walkers,     \* self._max_num_walkers (None or Some(number))
    walkers,             \* the ensemble of the last place_walkers / resample
    delta_walkers,       \* the delta_walkers of the last balance_tree / resample
    new_branches,        \* what the last place_walkers built as its result
    plan,                \* what the last balance_tree returned (None: nothing)
    resampled_walkers,   \* what the last resample returned (None: nothing)
    assigned,            \* what the last assign returned, and for which state
    last_call,           \* the last call that changed the tree
    err,                 \* the exception it raised, "none" if it returned
    n_placed             \* walkers placed so far

vars == <<max_n_regions, max_region_sizes, nodes, node, images, regions,
          walker_weights, walker_assignments, max_num_walkers, walkers,
          delta_walkers, new_branches, plan, resampled_walkers, assigned,
          last_call, err, n_placed>>

\* self._n_levels
n_levels == Len(max_n_regions)

\* ---------------------------------------------------------------- helpers
Prefix(id, level) == SubSeq(id, 1, level)          \* id[:level]
Last(s) == s[Len(s)]

RECURSIVE SumSeq(_)
SumSeq(s) == IF s = <<>> THEN 0 ELSE s[1] + SumSeq(Tail(s))

\* the attributes add_node is given for a new node (lines 193-198, 273-279)
NewNodeAttrs(image_idx) ==
    [image_idx |-> image_idx, n_walkers |-> 0, n_mergeable |-> 0,
     n_cloneable |-> 0, balance |-> 0, walker_idxs |-> <<>>,
     n_squashable |-> None, n_possible_clones |-> None]

\* The tree object as one value: T.nodes, T.node, T.images, T.regions,
\* T.walker_weights, T.walker_assignments, T.max_num_walkers
Tree == [nodes |-> nodes, node |-> node, images |-> images, regions |-> regions,
         walker_weights |-> walker_weights,
         walker_assignments |-> walker_assignments,
         max_num_walkers |-> max_num_walkers]

\* ------------------------------------------------------------ RegionTree
\* RegionTree.__init__: the root and one child per level, all on image 0
RECURSIVE InitSpine(_, _)
InitSpine(T, parent_id) ==
    IF Len(parent_id) >= n_levels THEN T
    ELSE InitSpine([T EXCEPT !.nodes = Append(@, Append(parent_id, 0)),
                             !.node = @ @@ (Append(parent_id, 0) :> NewNodeAttrs(0))],
                   Append(parent_id, 0))

RegionTreeInit(state, mnw) ==
    InitSpine([nodes |-> <<ROOT_NODE>>,
               node |-> (ROOT_NODE :> NewNodeAttrs(0)),
               images |-> <<Image(state)>>,
               regions |-> <<[i \in 1..n_levels |-> 0]>>,
               walker_weights |-> <<>>,
               walker_assignments |-> <<>>,
               max_num_walkers |-> mnw],
              ROOT_NODE)

\* the successors of parent_id (self.adj[parent_id])
ChildSet(T, parent_id) ==
    {c \in DOMAIN T.node : Len(c) = Len(parent_id) + 1
                           /\ Prefix(c, Len(parent_id)) = parent_id}

\* list.sort() of ids that differ in their last entry
SortedIds(S) ==
    [i \in 1..Cardinality(S) |->
        CHOOSE c \in S : Cardinality({d \in S : Last(d) < Last(c)}) = i - 1]

\* RegionTree.children
children(T, parent_id) == SortedIds(ChildSet(T, parent_id))

\* RegionTree.level_nodes / leaf_nodes: in the order of self.nodes
level_nodes(T, level) == SelectSeq(T.nodes, LAMBDA id : Len(id) = level)
leaf_nodes(T) == level_nodes(T, n_levels)

\* add_node and add_edge of add_child (lines 273-282)
AddNode(T, child_id, image_idx) ==
    [T |-> [T EXCEPT !.nodes = IF child_id \in DOMAIN T.node
                               THEN @ ELSE Append(@, child_id),
                     !.node = (child_id :> NewNodeAttrs(image_idx)) @@ @],
     child_id |-> child_id]

\* RegionTree.add_child: the tree and the new child's id
add_child(T, parent_id, image_idx) ==
    AddNode(T, Append(parent_id, Len(children(T, parent_id))), image_idx)

\* BranchSpine stopping one level above the leaves
RECURSIVE BranchSpineShort(_, _, _)
BranchSpineShort(r, image_idx, level) ==
    IF level >= n_levels - 1 THEN r
    ELSE BranchSpineShort(add_child(r.T, r.child_id, image_idx), image_idx,
                          level + 1)

\* the loop of branch_tree over the levels from branch_level down
RECURSIVE BranchSpine(_, _, _)
BranchSpine(r, image_idx, level) ==
    IF level >= n_levels THEN r
    ELSE BranchSpine(add_child(r.T, r.child_id, image_idx), image_idx, level + 1)

\* AppendRegion leaving the region list as it is
AppendRegionSkipped(r) ==
    [T |-> r.T, child_id |-> r.child_id]

\* line 316: the last child made is the new region
AppendRegion(r) ==
    [T |-> [r.T EXCEPT !.regions = Append(@, r.child_id)], child_id |-> r.child_id]

\* branch_tree putting the new image in front of the image table
branch_tree_prepend(T, parent_id, image) ==
    AppendRegion(BranchSpine([T |-> [T EXCEPT !.images = <<image>> \o @],
                              child_id |-> parent_id],
                             Len(T.images), Len(parent_id)))

\* RegionTree.branch_tree: the tree and the new leaf's id
branch_tree(T, parent_id, image) ==
    AppendRegion(BranchSpine([T |-> [T EXCEPT !.images = Append(@, image)],
                              child_id |-> parent_id],
                             Len(T.images), Len(parent_id)))

\* ------------------------------------------------------------------ assign
\* argmin returning the last smallest element
argmin_last(s) ==
    (CHOOSE i \in 1..Len(s) :
        /\ \A j \in 1..Len(s) : s[i] <= s[j]
        /\ \A j \in (i + 1)..Len(s) : s[j] > s[i]) - 1

\* np.argmin: the 0-based index of the first smallest element
argmin(s) ==
    (CHOOSE i \in 1..Len(s) :
        /\ \A j \in 1..Len(s) : s[i] <= s[j]
        /\ \A j \in 1..(i - 1) : s[j] > s[i]) - 1

\* ChildDist with dist_cache keyed by the child's place among its siblings
ChildDistByPlace(acc, image_idx, image, state) ==
    IF Len(acc.image_dists) \in DOMAIN acc.dist_cache
    THEN [image_dists |-> Append(acc.image_dists,
                                 acc.dist_cache[Len(acc.image_dists)]),
          dist_cache |-> acc.dist_cache]
    ELSE [image_dists |-> Append(acc.image_dists,
                                 image_distance(Image(state), image)),
          dist_cache |-> acc.dist_cache
                         @@ (Len(acc.image_dists)
                             :> image_distance(Image(state), image))]

\* lines 347-369 for one child: its distance, computed or read from
\* dist_cache, appended to image_dists
ChildDist(acc, image_idx, image, state) ==
    IF image_idx \in DOMAIN acc.dist_cache
    THEN [image_dists |-> Append(acc.image_dists, acc.dist_cache[image_idx]),
          dist_cache |-> acc.dist_cache]
    ELSE [image_dists |-> Append(acc.image_dists,
                                 image_distance(Image(state), image)),
          dist_cache |-> acc.dist_cache
                         @@ (image_idx :> image_distance(Image(state), image))]

\* the inner loop of assign over the children of one node
RECURSIVE LevelDists(_, _, _, _, _)
LevelDists(T, state, nodes_of_level, i, acc) ==
    IF i > Len(nodes_of_level) THEN acc
    ELSE LevelDists(T, state, nodes_of_level, i + 1,
             ChildDist(acc, T.node[nodes_of_level[i]].image_idx,
                       T.images[T.node[nodes_of_level[i]].image_idx + 1], state))

\* lines 372-381: record the closest child and its distance
Closest(nodes_of_level, r, level_closest_child_idx, acc) ==
    [node |-> nodes_of_level[level_closest_child_idx + 1],
     assignment |-> Append(acc.assignment, level_closest_child_idx),
     dists |-> Append(acc.dists, r.image_dists[level_closest_child_idx + 1]),
     dist_cache |-> r.dist_cache]

ClosestOf(nodes_of_level, r, acc) ==
    Closest(nodes_of_level, r, argmin(r.image_dists), acc)

\* one level of assign: the distances to the children of acc.node
AssignLevel(T, state, nodes_of_level, acc) ==
    ClosestOf(nodes_of_level,
              LevelDists(T, state, nodes_of_level, 1,
                         [image_dists |-> <<>>, dist_cache |-> acc.dist_cache]),
              acc)

\* the outer loop of assign over the levels
RECURSIVE AssignLevels(_, _, _)
AssignLevels(T, state, acc) ==
    IF Len(acc.assignment) >= n_levels THEN acc
    ELSE AssignLevels(T, state,
                      AssignLevel(T, state, children(T, acc.node), acc))

\* RegionTree.assign: assignment and dists (fields of the result)
assign(T, state) ==
    AssignLevels(T, state, [node |-> ROOT_NODE, assignment |-> <<>>,
                            dists |-> <<>>, dist_cache |-> <<>>])

\* ----------------------------------------------------------- clear_walkers
\* RegionTree.clear_walkers: empties the tables and, on every node, sets
\* n_walkers, walker_idxs, n_squashable, n_possible_clones and balance
clear_walkers(T) ==
    [T EXCEPT !.walker_assignments = <<>>,
              !.walker_weights = <<>>,
              !.node = [id \in DOMAIN T.node |->
                          [T.node[id] EXCEPT !.n_walkers = 0,
                                             !.walker_idxs = <<>>,
                                             !.n_squashable = Some(0),
                                             !.n_possible_clones = Some(0),
                                             !.balance = 0]]]

\* ----------------------------------------------------------- place_walkers
\* BranchNeeded comparing the number of children with <= instead of <
BranchNeededLax(T, assignment, distance, level) ==
    /\ distance > max_region_sizes[level + 1]
    /\ Len(children(T, Prefix(assignment, level))) <= max_n_regions[level + 1]

\* the test of place_walkers for a new region at `level` (lines 424-425)
BranchNeeded(T, assignment, distance, level) ==
    /\ distance > max_region_sizes[level + 1]
    /\ Len(children(T, Prefix(assignment, level))) < max_n_regions[level + 1]

\* FirstLevel taking the deepest level of the set
FirstLevelDeepest(S) ==
    IF S = {} THEN None ELSE Some(CHOOSE level \in S : \A m \in S : level >= m)

\* the first level of a set of levels (the break at line 442)
FirstLevel(S) ==
    IF S = {} THEN None ELSE Some(CHOOSE level \in S : \A m \in S : level <= m)

\* the loop over the levels (lines 419-442) stops at the first level that
\* needs a branch; None when no level does
BranchLevel(T, assignment, distances) ==
    FirstLevel({level \in 0..(Len(distances) - 1) :
                   BranchNeeded(T, assignment, distances[level + 1], level)})

\* lines 452-456: count the walker on every node of its branch
RECURSIVE CountWalker(_, _, _, _)
CountWalker(T, assignment, walker_idx, level) ==
    IF level > Len(assignment) THEN T
    ELSE CountWalker(
             [T EXCEPT !.node[Prefix(assignment, level)].n_walkers = @ + 1,
                       !.node[Prefix(assignment, level)].walker_idxs =
                           Append(@, walker_idx)],
             assignment, walker_idx, level + 1)

\* lines 444-456: save the assignment and the weight, count the walker
SaveWalker(b, walker_idx, walker) ==
    CountWalker([b.T EXCEPT !.walker_assignments = Append(@, b.child_id),
                            !.walker_weights = Append(@, walker.weight)],
                b.child_id, walker_idx, 0)

\* lines 435-438: the record of a new branch
BranchRecord(a, level, assignment, walker) ==
    [distance |-> a.dists[level + 1], branching_level |-> level,
     new_leaf_id |-> assignment, image |-> Image(walker.state)]

\* Placed keeping the assignment assign returned after a branch
PlacedOnAssigned(branches, walker_idx, walker, a, found, b) ==
    [T |-> SaveWalker([T |-> b.T, child_id |-> a.assignment], walker_idx, walker),
     new_branches |->
        IF found = None THEN branches
        ELSE Append(branches, BranchRecord(a, Val(found), b.child_id, walker))]

\* lines 427-456 once the level of the branch is known
Placed(branches, walker_idx, walker, a, found, b) ==
    [T |-> SaveWalker(b, walker_idx, walker),
     new_branches |->
        IF found = None THEN branches
        ELSE Append(branches, BranchRecord(a, Val(found), b.child_id, walker))]

Branched(T, branches, walker_idx, walker, a, found) ==
    Placed(branches, walker_idx, walker, a, found,
           IF found = None THEN [T |-> T, child_id |-> a.assignment]
           ELSE branch_tree(T, Prefix(a.assignment, Val(found)),
                            Image(walker.state)))

\* Assigned without the test for a new region
AssignedNoBranch(T, branches, walker_idx, walker, a) ==
    Branched(T, branches, walker_idx, walker, a, None)

\* lines 414-456 with the result of assign
Assigned(T, branches, walker_idx, walker, a) ==
    Branched(T, branches, walker_idx, walker, a,
             BranchLevel(T, a.assignment, a.dists))

\* one round of the loop over the walkers (lines 411-456)
PlaceWalker(T, branches, walker_idx, walker) ==
    Assigned(T, branches, walker_idx, walker, assign(T, walker.state))

RECURSIVE PlaceLoop(_, _, _)
PlaceLoop(r, ws, walker_idx) ==
    IF walker_idx >= Len(ws) THEN r
    ELSE PlaceLoop(PlaceWalker(r.T, r.new_branches, walker_idx, ws[walker_idx + 1]),
                   ws, walker_idx + 1)

\* ------------------------------------------------- the single merge method
\* walker_weights.sort() (line 24): ascending
SortedWeights(weights) ==
    SortSeq(weights, LAMBDA a, b : a < b)

\* SquashLoop leaving merge_size as it is when the sum has exceeded
\* max_weight
RECURSIVE SquashLoopKeep(_, _, _, _, _)
SquashLoopKeep(sorted, max_weight, idx, sum_weights, merge_size) ==
    IF sum_weights <= max_weight
    THEN IF idx + 1 >= Len(sorted) THEN merge_size
         ELSE SquashLoopKeep(sorted, max_weight, idx + 1,
                             sum_weights + sorted[idx + 2], merge_size + 1)
    ELSE merge_size

\* the while ... else of calc_squashable_walkers_single_method (lines
\* 38-60): merge_size when the loop is left; idx is 0-based. The break
\* (line 43) skips the else branch, a failed loop test runs it (line 60)
RECURSIVE SquashLoop(_, _, _, _, _)
SquashLoop(sorted, max_weight, idx, sum_weights, merge_size) ==
    IF sum_weights <= max_weight
    THEN IF idx + 1 >= Len(sorted) THEN merge_size
         ELSE SquashLoop(sorted, max_weight, idx + 1,
                         sum_weights + sorted[idx + 2], merge_size + 1)
    ELSE merge_size - 1

\* calc_squashable_walkers_single_method, for a non-empty list
calc_squashable_walkers_single_method(weights, max_weight) ==
    SquashLoop(SortedWeights(weights), max_weight, 0,
               SortedWeights(weights)[1], 1) - 1

\* np.argsort(walker_weights) (line 82): the 0-based positions by ascending
\* weight, equal weights in the order of their positions
argsort(weights) ==
    [k \in 1..Len(weights) |->
        (CHOOSE i \in 1..Len(weights) :
            Cardinality({j \in 1..Len(weights) :
                            \/ weights[j] < weights[i]
                            \/ (weights[j] = weights[i] /\ j < i)})
              = k - 1) - 1]

\* the slice [:num_merge_walkers] of line 82
FirstOf(seq, num) ==
    SubSeq(seq, 1, IF num < Len(seq) THEN num ELSE Len(seq))

\* lines 85-91: the chosen walkers as the only merge group, and whether
\* their weights sum to at most max_weight
MergeGroup(weights, chosen_idxs, max_weight) ==
    [err |-> "none", merge_groups |-> <<chosen_idxs>>,
     result |-> ~(SumSeq([k \in 1..Len(chosen_idxs) |->
                             weights[chosen_idxs[k] + 1]]) > max_weight)]

\* decide_merge_groups_single_method
decide_merge_groups_single_method(weights, balance, max_weight) ==
    IF ~(balance < 0)
    THEN [err |-> "AssertionError", merge_groups |-> <<>>, result |-> FALSE]
    ELSE MergeGroup(weights,
                    FirstOf(argsort(weights), (0 - balance) + 1),
                    max_weight)

\* --------------------------------------------- mergeable / cloneable counts
\* RegionTree._calc_mergeable_walkers: for merge method 'single' it calls
\* calc_mergeable_walkers_single_method (line 567), a name the module does
\* not define (line 21 defines calc_squashable_walkers_single_method):
\* NameError
calc_mergeable_walkers(T, leaf_weights) ==
    [err |-> "NameError", value |-> 0]

\* the while loop of calc_max_num_clones for one walker (lines 103-110);
\* `n_splits <= max_num_walkers` is evaluated only when the weight test
\* passed, and raises TypeError when max_num_walkers is None
RECURSIVE SplitLoop(_, _, _, _)
SplitLoop(walker_weight, min_weight, mnw, n_splits) ==
    IF walker_weight >= min_weight * n_splits
    THEN IF mnw = None THEN [err |-> "TypeError", value |-> 0]
         ELSE IF n_splits <= Val(mnw)
              THEN SplitLoop(walker_weight, min_weight, mnw, n_splits + 1)
              ELSE [err |-> "none", value |-> n_splits]
    ELSE [err |-> "none", value |-> n_splits]

\* lines 112-119: the clone count of one walker in front of the others'
ConsClones(r, rest) ==
    IF r.err # "none" THEN [err |-> r.err, value |-> <<>>]
    ELSE IF rest.err # "none" THEN rest
    ELSE [err |-> "none", value |-> <<(r.value - 1) - 1>> \o rest.value]

\* calc_max_num_clones: the list of per-walker clone counts
RECURSIVE calc_max_num_clones(_, _, _)
calc_max_num_clones(weights, min_weight, mnw) ==
    IF weights = <<>> THEN [err |-> "none", value |-> <<>>]
    ELSE ConsClones(SplitLoop(weights[1], min_weight, mnw, 2),
                    calc_max_num_clones(Tail(weights), min_weight, mnw))

\* lines 485 / 499: add a leaf's count to one node
AddCount(attrs, field, amount) ==
    IF field = "n_mergeable" THEN [attrs EXCEPT !.n_mergeable = @ + amount]
    ELSE [attrs EXCEPT !.n_cloneable = @ + amount]

\* lines 483-485 / 497-499: add the leaf's count to each of its ancestors
RECURSIVE AddToAncestors(_, _, _, _, _)
AddToAncestors(nd, node_id, field, amount, level) ==
    IF level < 0 THEN nd
    ELSE AddToAncestors(
             [nd EXCEPT ![Prefix(node_id, level)] = AddCount(@, field, amount)],
             node_id, field, amount, level - 1)

\* lines 479-485 and 493-499: set the leaf's count, then its ancestors'
SetCount(T, node_id, field, amount) ==
    [T EXCEPT !.node = AddToAncestors(
                           [@ EXCEPT ![node_id] =
                               IF field = "n_mergeable"
                               THEN [@ EXCEPT !.n_mergeable = amount]
                               ELSE [@ EXCEPT !.n_cloneable = amount]],
                           node_id, field, amount, n_levels - 1)]

\* lines 469-470
LeafWeights(T, node_id) ==
    [k \in 1..Len(T.node[node_id].walker_idxs) |->
        T.walker_weights[T.node[node_id].walker_idxs[k] + 1]]

\* the loop of place_walkers over the leaves (lines 467-499): [T, err]
RECURSIVE CountLoop(_, _, _)
RECURSIVE CountCloneable(_, _, _)

\* lines 493-499 with the result of _calc_max_num_clones
CountClones(T, leaves, i, c) ==
    IF c.err # "none" THEN [T |-> T, err |-> c.err]
    ELSE CountLoop(SetCount(T, leaves[i], "n_cloneable", SumSeq(c.value)),
                   leaves, i + 1)

\* lines 489-499
CountCloneable(T, leaves, i) ==
    IF T.node[leaves[i]].n_walkers > 0
    THEN CountClones(T, leaves, i,
                     calc_max_num_clones(LeafWeights(T, leaves[i]), pmin,
                                         T.max_num_walkers))
    ELSE CountLoop(T, leaves, i + 1)

\* lines 479-485 with the result of _calc_mergeable_walkers
CountMerges(T, leaves, i, m) ==
    IF m.err # "none" THEN [T |-> T, err |-> m.err]
    ELSE CountCloneable(SetCount(T, leaves[i], "n_mergeable", m.value), leaves, i)

CountLoop(T, leaves, i) ==
    IF i > Len(leaves) THEN [T |-> T, err |-> "none"]
    ELSE IF T.node[leaves[i]].n_walkers > 1
    THEN CountMerges(T, leaves, i,
                     calc_mergeable_walkers(T, LeafWeights(T, leaves[i])))
    ELSE CountCloneable(T, leaves, i)

PlaceResult(p, c) == [T |-> c.T, new_branches |-> p.new_branches, err |-> c.err]

PlaceCounted(p) == PlaceResult(p, CountLoop(p.T, leaf_nodes(p.T), 1))

\* RegionTree.place_walkers: [T, new_branches, err]
place_walkers(T, ws) ==
    PlaceCounted(PlaceLoop([T |-> clear_walkers(T), new_branches |-> <<>>], ws, 0))

\* ------------------------------------------------------------ balance_tree
\* RegionTree._dispense_debit_shares: after building children_shares the
\* loop test reads remaining_balance (line 653), a local the function only
\* assigns later (line 673): UnboundLocalError, nothing changed
dispense_debit_shares(T, parental_balance, children_node_ids) ==
    [T |-> T, err |-> "UnboundLocalError", children_shares |-> <<>>]

\* RegionTree._dispense_credit_shares: the same at line 704
dispense_credit_shares(T, parental_balance, children_node_ids) ==
    [T |-> T, err |-> "UnboundLocalError", children_shares |-> <<>>]

\* a dispensation that also moves the balance into the walker count of an
\* only child
dispense_parental_shares_counted(T, parental_balance, children_node_ids) ==
    IF Len(children_node_ids) = 1
    THEN [T |-> [T EXCEPT !.node[children_node_ids[1]].balance = parental_balance,
                          !.node[children_node_ids[1]].n_walkers = @ + parental_balance],
          err |-> "UnboundLocalError", children_shares |-> <<>>]
    ELSE IF Len(children_node_ids) > 1 /\ parental_balance < 0
    THEN dispense_debit_shares(T, parental_balance, children_node_ids)
    ELSE IF Len(children_node_ids) > 1 /\ parental_balance > 0
    THEN dispense_credit_shares(T, parental_balance, children_node_ids)
    ELSE [T |-> T, err |-> "UnboundLocalError", children_shares |-> <<>>]

\* RegionTree._dispense_parental_shares: one child inherits the balance
\* (line 617); then, and when the balance of several children is 0, the
\* return at line 638 reads children_shares, which no branch has assigned
dispense_parental_shares(T, parental_balance, children_node_ids) ==
    IF Len(children_node_ids) = 1
    THEN [T |-> [T EXCEPT !.node[children_node_ids[1]].balance = parental_balance],
          err |-> "UnboundLocalError", children_shares |-> <<>>]
    ELSE IF Len(children_node_ids) > 1 /\ parental_balance < 0
    THEN dispense_debit_shares(T, parental_balance, children_node_ids)
    ELSE IF Len(children_node_ids) > 1 /\ parental_balance > 0
    THEN dispense_credit_shares(T, parental_balance, children_node_ids)
    ELSE [T |-> T, err |-> "UnboundLocalError", children_shares |-> <<>>]

\* RegionTree._find_best_donation_pair: the loop (line 865) enumerates the
\* dictionary children_shares, so child_node_id is a position 0, 1, ... and
\* n_shares a key; the first round looks up self.node[0] (line 869), which
\* is no node of the tree: KeyError. Without children the loop is skipped
\* and the assertion of line 899 fails, donor and acceptor being None
find_best_donation_pair(T, children_shares) ==
    IF DOMAIN children_shares = {}
    THEN [err |-> "AssertionError", pair |-> None]
    ELSE [err |-> "KeyError", pair |-> None]

\* RegionTree._calc_share_donation: line 916 reads acceptor_node_id, which
\* is no parameter (the parameter is recipient_node_id), local or global
calc_share_donation(T, donor_node_id, recipient_node_id, children_shares) ==
    [err |-> "NameError", donation |-> None]

\* lines 766-782 with the result of _find_best_donation_pair: no pair gives
\* (None, None, 0); a pair reads max_child_node_id (line 778), which is not
\* defined
FoundPair(T, children_shares, result) ==
    IF result.err # "none"
    THEN [err |-> result.err, donor_node_id |-> None,
          acceptor_node_id |-> None, donation_amount |-> None]
    ELSE IF result.pair = None
    THEN [err |-> "none", donor_node_id |-> None,
          acceptor_node_id |-> None, donation_amount |-> Some(0)]
    ELSE [err |-> "NameError", donor_node_id |-> None,
          acceptor_node_id |-> None, donation_amount |-> None]

\* RegionTree._gen_best_donation
gen_best_donation(T, children_shares) ==
    FoundPair(T, children_shares, find_best_donation_pair(T, children_shares))

\* RegionTree._balance_children_shares: its first statement (line 794)
\* reads children_node_ids, which is no parameter, local or global of it
balance_children_shares(T, children_shares) ==
    [err |-> "NameError", children_net_balances |-> <<>>]

\* lines 595-597: store the net balances on the children
RECURSIVE SetBalances(_, _, _)
SetBalances(T, ids, children_net_balances) ==
    IF ids = <<>> THEN T
    ELSE SetBalances([T EXCEPT !.node[ids[1]].balance = children_net_balances[ids[1]]],
                     Tail(ids), children_net_balances)

Balanced(T, children_node_ids, b) ==
    IF b.err # "none" THEN [T |-> T, err |-> b.err]
    ELSE [T |-> SetBalances(T, children_node_ids, b.children_net_balances),
          err |-> "none"]

Dispensed(d, children_node_ids) ==
    IF d.err # "none" THEN [T |-> d.T, err |-> d.err]
    ELSE Balanced(d.T, children_node_ids,
                  balance_children_shares(d.T, d.children_shares))

\* RegionTree._propagate_and_balance_shares: [T, err]
propagate_and_balance_shares(T, parental_balance, children_node_ids) ==
    Dispensed(dispense_parental_shares(T, parental_balance, children_node_ids),
              children_node_ids)

\* the loop of balance_tree over nx.bfs_successors (lines 1251-1259): every
\* node that has children, breadth first from the root
RECURSIVE BfsLoop(_, _)
BfsNext(r, queue, successors) ==
    IF r.err # "none" THEN r ELSE BfsLoop(r.T, Tail(queue) \o successors)

BfsVisit(T, queue, successors) ==
    IF successors = <<>> THEN BfsLoop(T, Tail(queue))
    ELSE BfsNext(propagate_and_balance_shares(T, T.node[Head(queue)].balance,
                                              successors),
                 queue, successors)

BfsLoop(T, queue) ==
    IF queue = <<>> THEN [T |-> T, err |-> "none"]
    ELSE BfsVisit(T, queue, children(T, Head(queue)))

\* line 1263
LeafBalances(T) ==
    [i \in 1..Len(leaf_nodes(T)) |-> T.node[leaf_nodes(T)[i]].balance]

\* lines 1261-1293.  Past the check of the leaf balances balance_tree calls
\* self._decide_settle_balances (line 1270); the class defines
\* _decide_settle_balance: AttributeError
Settle(r, delta) ==
    IF r.err # "none" THEN [T |-> r.T, plan |-> None, err |-> r.err]
    ELSE IF SumSeq(LeafBalances(r.T)) # delta
    THEN [T |-> r.T, plan |-> None, err |-> "RegionTreeError"]
    ELSE [T |-> r.T, plan |-> None, err |-> "AttributeError"]

\* RegionTree.balance_tree: [T, plan, err]
balance_tree(T, delta) ==
    Settle(BfsLoop([T EXCEPT !.node[ROOT_NODE].balance = delta], <<ROOT_NODE>>),
           delta)

\* ---------------------------------------------------------------- resample
\* lines 1535-1579: decide, the action of the decision class, clear_walkers
Decided(a, d) ==
    IF d.err # "none"
    THEN [T |-> d.T, new_branches |-> a.new_branches, plan |-> None,
          resampled_walkers |-> None, err |-> d.err]
    ELSE [T |-> clear_walkers(d.T), new_branches |-> a.new_branches,
          plan |-> d.plan, resampled_walkers |-> None, err |-> "none"]

\* lines 1528-1536: assign, then decide
Assignments(a, delta) ==
    IF a.err # "none"
    THEN [T |-> a.T, new_branches |-> a.new_branches, plan |-> None,
          resampled_walkers |-> None, err |-> a.err]
    ELSE Decided(a, balance_tree(a.T, delta))

\* WExploreResampler.resample: [T, new_branches, plan, resampled_walkers, err]
resample(T, ws, delta) == Assignments(place_walkers(T, ws), delta)

\* ------------------------------------------------------------ the machine
Positions == 0..MaxPos
Weights == pmin..pmax
Walker == [state : Positions, weight : Weights]
Ensembles == UNION {[1..n -> Walker] : n \in 0..MaxWalkers}
Deltas == (0 - MaxDelta)..MaxDelta

SetTree(T) ==
    /\ nodes' = T.nodes
    /\ node' = T.node
    /\ images' = T.images
    /\ regions' = T.regions
    /\ walker_weights' = T.walker_weights
    /\ walker_assignments' = T.walker_assignments
    /\ max_num_walkers' = T.max_num_walkers

InitTree(T) ==
    /\ nodes = T.nodes
    /\ node = T.node
    /\ images = T.images
    /\ regions = T.regions
    /\ walker_weights = T.walker_weights
    /\ walker_assignments = T.walker_assignments
    /\ max_num_walkers = T.max_num_walkers

\* the tree as WExploreResampler.__init__ builds it (max_num_walkers not
\* passed: None) or as built with a number for max_num_walkers
InitWith(cfg) ==
    /\ max_n_regions = cfg.max_n_regions
    /\ max_region_sizes = cfg.max_region_sizes
    /\ \E mnw \in {None, Some(IntMaxNumWalkers)} :
          InitTree(RegionTreeInit(init_state, mnw))
    /\ assigned = None
    /\ walkers = <<>>
    /\ delta_walkers = 0
    /\ new_branches = <<>>
    /\ plan = None
    /\ resampled_walkers = None
    /\ last_call = "init"
    /\ err = "none"
    /\ n_placed = 0

Init == InitWith(TwoLevels)

PlaceWalkersDone(ws, r) ==
    /\ SetTree(r.T)
    /\ walkers' = ws
    /\ new_branches' = r.new_branches
    /\ err' = r.err

PlaceWalkers ==
    /\ \E ws \in Ensembles :
          /\ n_placed + Len(ws) <= MaxPlaced
          /\ PlaceWalkersDone(ws, place_walkers(Tree, ws))
          /\ n_placed' = n_placed + Len(ws)
    /\ last_call' = "place_walkers"
    /\ assigned' = None
    /\ UNCHANGED <<max_n_regions, max_region_sizes, delta_walkers, plan,
                   resampled_walkers>>

BalanceTreeDone(delta, r) ==
    /\ SetTree(r.T)
    /\ delta_walkers' = delta
    /\ plan' = r.plan
    /\ err' = r.err

BalanceTree ==
    /\ last_call = "place_walkers"
    /\ \E delta \in Deltas : BalanceTreeDone(delta, balance_tree(Tree, delta))
    /\ last_call' = "balance_tree"
    /\ assigned' = None
    /\ UNCHANGED <<max_n_regions, max_region_sizes, walkers, new_branches,
                   resampled_walkers, n_placed>>

ClearWalkers ==
    /\ last_call # "clear_walkers"
    /\ SetTree(clear_walkers(Tree))
    /\ err' = "none"
    /\ last_call' = "clear_walkers"
    /\ assigned' = None
    /\ UNCHANGED <<max_n_regions, max_region_sizes, walkers, delta_walkers,
                   new_branches, plan, resampled_walkers, n_placed>>

ResampleDone(ws, delta, r) ==
    /\ SetTree(r.T)
    /\ walkers' = ws
    /\ delta_walkers' = delta
    /\ new_branches' = r.new_branches
    /\ plan' = r.plan
    /\ resampled_walkers' = r.resampled_walkers
    /\ err' = r.err

Resample ==
    /\ max_num_walkers = None
    /\ \E ws \in Ensembles, delta \in Deltas :
          /\ n_placed + Len(ws) <= MaxPlaced
          /\ ResampleDone(ws, delta, resample(Tree, ws, delta))
          /\ n_placed' = n_placed + Len(ws)
    /\ last_call' = "resample"
    /\ assigned' = None
    /\ UNCHANGED <<max_n_regions, max_region_sizes>>

\* a call of RegionTree.assign for one state: the tree is only read
AssignDone(state, r) ==
    assigned' = Some([state |-> state, assignment |-> r.assignment,
                      dists |-> r.dists])

Assign ==
    /\ \E state \in Positions : AssignDone(state, assign(Tree, state))
    /\ UNCHANGED <<max_n_regions, max_region_sizes, nodes, node, images,
                   regions, walker_weights, walker_assignments,
                   max_num_walkers, walkers, delta_walkers, new_branches,
                   plan, resampled_walkers, last_call, err, n_placed>>

Next == PlaceWalkers \/ BalanceTree \/ ClearWalkers \/ Resample

Spec == Init /\ [][Next]_vars

\* trees of one and of two levels, grown by placements and queried by assign
InitAssign == InitWith(OneLevel) \/ InitWith(TwoLevels)

NextAssign == PlaceWalkers \/ ClearWalkers \/ Assign

SpecAssign == InitAssign /\ [][NextAssign]_vars

\* ================================================================ claims
\* helpers of the formulas
IsPrefixSeq(s, t) == Len(s) <= Len(t) /\ SubSeq(t, 1, Len(s)) = s
Interior == {id \in DOMAIN node : Len(id) < n_levels}
LeafDescendants(id) ==
    {c \in DOMAIN node : Len(c) = n_levels /\ IsPrefixSeq(id, c)}

RECURSIVE SumOver(_, _)
SumOver(S, field) ==
    IF S = {} THEN 0
    ELSE LET c == CHOOSE x \in S : TRUE
         IN (IF field = "n_walkers" THEN node[c].n_walkers
             ELSE IF field = "n_mergeable" THEN node[c].n_mergeable
             ELSE IF field = "n_cloneable" THEN node[c].n_cloneable
             ELSE node[c].balance)
            + SumOver(S \ {c}, field)

\* the 0-based walker indices assigned through node id, ascending
RECURSIVE AssignedThrough(_, _)
AssignedThrough(id, n) ==
    IF n = 0 THEN <<>>
    ELSE IF IsPrefixSeq(id, walker_assignments[n])
         THEN Append(AssignedThrough(id, n - 1), n - 1)
         ELSE AssignedThrough(id, n - 1)

\* weights as fractions [num, den]: the sum of a sequence of them
RECURSIVE FracSum(_)
FracSum(ws) ==
    IF ws = <<>> THEN [num |-> 0, den |-> 1]
    ELSE LET r == FracSum(Tail(ws))
         IN [num |-> ws[1].num * r.den + r.num * ws[1].den,
             den |-> ws[1].den * r.den]

InputWeightSum == SumSeq([i \in 1..Len(walkers) |-> walkers[i].weight])

\* the net change in the number of walkers a plan asks for
PlanNet(p) ==
    SumSeq(p.walkers_num_clones)
    - SumSeq([k \in 1..Len(p.merge_groups) |-> Len(p.merge_groups[k])])

C5_BalanceWithinCapacity ==
    (last_call = "balance_tree" /\ walkers # <<>>)
    => \/ err = "RegionTreeError"
       \/ /\ err = "none"
          /\ \A id \in DOMAIN node \ {ROOT_NODE} :
                /\ 0 - node[id].n_mergeable <= node[id].balance
                /\ node[id].balance <= node[id].n_cloneable

\* C6: every node without children is at depth n_levels and every node above
\* that depth has a child (every root-to-leaf path has length n_levels)
C6_DepthInvariant ==
    \A id \in DOMAIN node :
        /\ Len(id) <= n_levels
        /\ (ChildSet(Tree, id) = {}) <=> (Len(id) = n_levels)
        /\ id # ROOT_NODE => Prefix(id, Len(id) - 1) \in DOMAIN node

\* a placement that branched at level 0 and at level 1
C6_Witness ==
    /\ last_call = "place_walkers"
    /\ \E i, j \in DOMAIN new_branches :
          /\ new_branches[i].branching_level = 0
          /\ new_branches[j].branching_level = 1

\* C7: every node above the leaves has at most max_n_regions[depth] children
C7_BranchingCap ==
    \A p \in Interior :
        Cardinality(ChildSet(Tree, p)) <= max_n_regions[Len(p) + 1]

\* the root is full and a walker farther than max_region_sizes[0] from the
\* image of its level-0 region was placed without a branch at level 0
C7_Witness ==
    /\ last_call = "place_walkers"
    /\ Cardinality(ChildSet(Tree, ROOT_NODE)) = max_n_regions[1]
    /\ \E i \in 1..Len(walker_assignments) :
          /\ image_distance(Image(walkers[i].state),
                 images[node[Prefix(walker_assignments[i], 1)].image_idx + 1])
             > max_region_sizes[1]
          /\ \A k \in DOMAIN new_branches :
                new_branches[k].new_leaf_id = walker_assignments[i]
                => new_branches[k].branching_level > 0

\* C8: in every step the node set, the order of the nodes, the image table
\* and the region list only grow at the end, and every node keeps its
\* image_idx
C8_Grows ==
    /\ IsPrefixSeq(nodes, nodes')
    /\ DOMAIN node \subseteq DOMAIN node'
    /\ IsPrefixSeq(images, images')
    /\ IsPrefixSeq(regions, regions')
    /\ \A id \in DOMAIN node : node'[id].image_idx = node[id].image_idx

C8_TreeMonotonic == [][C8_Grows]_vars

\* a tree that has grown by two branches and was then cleared
C8_Witness ==
    /\ last_call = "clear_walkers"
    /\ Len(images) >= 3
    /\ Len(regions) >= 3

\* C9: from place_walkers until the next clear_walkers every node holds
\* exactly the walkers whose assignment passes through it, once each, the
\* root holds the whole ensemble, n_walkers is the length of walker_idxs and
\* the sum of the children's n_walkers, and the leaf of every new branch is
\* the assignment of a walker
C9_Placed ==
    \/ last_call \in {"place_walkers", "balance_tree"}
    \/ last_call = "resample" /\ err # "none"

C9_WalkerCounts ==
    C9_Placed
    => /\ Len(walker_assignments) = Len(walkers)
       /\ node[ROOT_NODE].walker_idxs = [i \in 1..Len(walkers) |-> i - 1]
       /\ \A id \in DOMAIN node :
             /\ node[id].walker_idxs = AssignedThrough(id, Len(walker_assignments))
             /\ node[id].n_walkers = Len(node[id].walker_idxs)
       /\ \A id \in Interior :
             node[id].n_walkers = SumOver(ChildSet(Tree, id), "n_walkers")
       /\ \A k \in DOMAIN new_branches :
             \E i \in 1..Len(walker_assignments) :
                 walker_assignments[i] = new_branches[k].new_leaf_id

\* two walkers placed, the second one by a branch
C9_Witness ==
    /\ last_call = "place_walkers"
    /\ Len(walkers) = 2
    /\ new_branches # <<>>
    /\ walker_assignments[2] = new_branches[Len(new_branches)].new_leaf_id
    /\ walker_assignments[1] # walker_assignments[2]

\* C10: after a place_walkers call that returned, n_mergeable and n_cloneable
\* of every interior node are the sums over its leaf descendants
C10_CapacitySums ==
    (last_call = "place_walkers" /\ err = "none")
    => \A id \in Interior :
          /\ node[id].n_mergeable = SumOver(LeafDescendants(id), "n_mergeable")
          /\ node[id].n_cloneable = SumOver(LeafDescendants(id), "n_cloneable")

\* C11: after clear_walkers every node has n_walkers = 0, walker_idxs = [],
\* n_mergeable = 0, n_cloneable = 0 and balance = 0, and the assignment and
\* weight tables are empty
C11_ClearRestoresDefaults ==
    last_call = "clear_walkers"
    => /\ walker_assignments = <<>>
       /\ walker_weights = <<>>
       /\ \A id \in DOMAIN node :
             /\ node[id].n_walkers = 0
             /\ node[id].walker_idxs = <<>>
             /\ node[id].n_mergeable = 0
             /\ node[id].n_cloneable = 0
             /\ node[id].balance = 0

\* the 0-based walker indices a plan squashes
SquashedIdxs(p) ==
    UNION {{p.merge_groups[g][j] : j \in 1..Len(p.merge_groups[g])} :
           g \in 1..Len(p.merge_groups)}

\* no walker a plan clones keeps or is squashed in a merge group
PlanConsistent(p) ==
    \A k \in 1..Len(p.walkers_num_clones) :
        p.walkers_num_clones[k] > 0
        => /\ p.merge_groups[k] = <<>>
           /\ (k - 1) \notin SquashedIdxs(p)

\* C12: a balance_tree call with delta_walkers = 0 on a non-empty ensemble
\* produces a plan, and in it no walker with clones > 0 is the keeper or a
\* squashed member of a merge group
C12_PlanConsistency ==
    (last_call = "balance_tree" /\ delta_walkers = 0 /\ walkers # <<>>)
    => /\ plan # None
       /\ PlanConsistent(Val(plan))

\* the clones the weights of the ensemble allow without a child below pmin
MaxClonesByPmin ==
    SumSeq([i \in 1..Len(walkers) |-> (walkers[i].weight \div pmin) - 1])

\* delta_walkers is beyond what the ensemble can clone or merge
Unrealisable ==
    \/ delta_walkers > MaxClonesByPmin
    \/ 0 - delta_walkers > Len(walkers) - 1

\* C16: a balance_tree call whose delta_walkers cannot be realised within
\* the capacities aborts with the capacity error (a RegionTreeError) and
\* returns no plan
C16_CapacityError ==
    (last_call = "balance_tree" /\ walkers # <<>> /\ Unrealisable)
    => /\ err = "RegionTreeError"
       /\ plan = None

\* a plan that merges nothing and clones nothing
PlanIsNoop(p) ==
    /\ \A g \in 1..Len(p.merge_groups) : p.merge_groups[g] = <<>>
    /\ \A k \in 1..Len(p.walkers_num_clones) : p.walkers_num_clones[k] = 0

\* C17: on a tree with a single leaf a cycle with delta_walkers = 0 on a
\* non-empty ensemble completes without error, every balance is 0 and the
\* plan merges and clones nothing
C17_SingleLeafNoop ==
    (/\ last_call \in {"balance_tree", "resample"}
     /\ walkers # <<>>
     /\ delta_walkers = 0
     /\ Len(regions) = 1)
    => /\ err = "none"
       /\ \A id \in DOMAIN node : node[id].balance = 0
       /\ plan # None
       /\ PlanIsNoop(Val(plan))

\* C18: two walkers in one leaf whose weights sum to at most pmax, with
\* delta_walkers = -1: the cycle returns a plan with exactly one merge
\* group, in which one of the two walkers keeps and the other is squashed,
\* and nothing is cloned
C18_MergeDecision ==
    (/\ last_call \in {"balance_tree", "resample"}
     /\ delta_walkers = 0 - 1
     /\ Len(walkers) = 2
     /\ Len(walker_assignments) = 2
     /\ walker_assignments[1] = walker_assignments[2]
     /\ walkers[1].weight + walkers[2].weight <= pmax)
    => /\ plan # None
       /\ \/ Val(plan).merge_groups = <<<<1>>, <<>>>>
          \/ Val(plan).merge_groups = <<<<>>, <<0>>>>
       /\ Val(plan).walkers_num_clones = <<0, 0>>

\* the leaves in pairs under one parent
SiblingLeaves ==
    {ab \in (DOMAIN node) \X (DOMAIN node) :
        /\ Len(ab[1]) = n_levels
        /\ Len(ab[2]) = n_levels
        /\ ab[1] # ab[2]
        /\ Prefix(ab[1], n_levels - 1) = Prefix(ab[2], n_levels - 1)}

UnusedMergeable(id) ==
    node[id].n_mergeable + (IF node[id].balance < 0 THEN node[id].balance ELSE 0)
UnusedCloneable(id) ==
    node[id].n_cloneable - (IF node[id].balance > 0 THEN node[id].balance ELSE 0)
Shares(id) == node[id].n_walkers + node[id].balance

\* C19: a balance_tree call with delta_walkers = 0 on a tree with sibling
\* leaves completes, and then no leaf with unused mergeable capacity holds 2
\* or more shares more than a sibling with unused cloneable capacity
C19_InterLeafTransfer ==
    (/\ last_call = "balance_tree"
     /\ delta_walkers = 0
     /\ walkers # <<>>
     /\ SiblingLeaves # {})
    => /\ err = "none"
       /\ \A ab \in SiblingLeaves :
             (UnusedMergeable(ab[1]) > 0 /\ UnusedCloneable(ab[2]) > 0)
             => Shares(ab[1]) - Shares(ab[2]) < 2

\* C20: a balance_tree call that fails raises RegionTreeError
C20_RegionTreeErrorOnly ==
    (last_call = "balance_tree" /\ err # "none")
    => err = "RegionTreeError"

\* the distance from a state's image to the image of a node
TrueDist(id, state) ==
    image_distance(Image(state), images[node[id].image_idx + 1])

\* C13: a call of assign leaves the tree as it was, every distance it
\* returns is the distance from the state's image to the image of the node
\* selected at that level, and a repeated call for the same state on the
\* same tree returns the same result
C13_AssignStep ==
    assigned' # None
    => /\ Tree' = Tree
       /\ max_n_regions' = max_n_regions
       /\ max_region_sizes' = max_region_sizes
       /\ Len(Val(assigned').dists) = n_levels
       /\ \A l \in 1..Len(Val(assigned').dists) :
             Val(assigned').dists[l]
                 = TrueDist(Prefix(Val(assigned').assignment, l),
                            Val(assigned').state)
       /\ (assigned # None /\ Val(assigned).state = Val(assigned').state)
          => assigned' = assigned

C13_AssignReadOnly == [][C13_AssignStep]_vars

\* assign has answered on a two-level tree with a branch and placed
\* walkers: the second level reads the cache for the image of the first
C13_Witness ==
    /\ assigned # None
    /\ n_levels = 2
    /\ Len(images) >= 2
    /\ walker_assignments # <<>>
    /\ node[Val(assigned).assignment].image_idx
           = node[Prefix(Val(assigned).assignment, 1)].image_idx

\* the result of assign for one state: a leaf, at every level a child of
\* the node selected before, nearest among its siblings, the first of the
\* nearest ones, with its distance
NearestPath(state, r) ==
    /\ Len(r.assignment) = n_levels
    /\ Len(r.dists) = n_levels
    /\ r.assignment \in DOMAIN node
    /\ ChildSet(Tree, r.assignment) = {}
    /\ \A l \in 1..n_levels :
          /\ Prefix(r.assignment, l) \in ChildSet(Tree, Prefix(r.assignment, l - 1))
          /\ r.dists[l] = TrueDist(Prefix(r.assignment, l), state)
          /\ \A c \in ChildSet(Tree, Prefix(r.assignment, l - 1)) :
                /\ TrueDist(c, state) >= r.dists[l]
                /\ Last(c) < r.assignment[l] => TrueDist(c, state) > r.dists[l]

\* C14: on every reachable tree and for every state assign returns the id
\* of a leaf reached by taking, at each level, the nearest child of the
\* node selected before, the one of lowest index among equally near ones,
\* and the distances returned are those minima
C14_AssignNearest ==
    \A state \in Positions : NearestPath(state, assign(Tree, state))

\* assign has answered for a state equally near to two children of the root
C14_Witness ==
    /\ assigned # None
    /\ Val(assigned).assignment[1] = 0
    /\ <<1>> \in DOMAIN node
    /\ TrueDist(<<0>>, Val(assigned).state) = TrueDist(<<1>>, Val(assigned).state)

\* scenario S4: the first two walkers placed on a one-level tree, farther
\* apart than max_region_sizes[0]
S4_Placed ==
    /\ n_levels = 1
    /\ last_call = "place_walkers"
    /\ Len(walkers) = 2
    /\ n_placed = 2
    /\ image_distance(Image(walkers[1].state), Image(walkers[2].state))
           > max_region_sizes[1]

S4_TwoLeavesOneEach ==
    /\ Cardinality(ChildSet(Tree, ROOT_NODE)) = 2
    /\ \A c \in ChildSet(Tree, ROOT_NODE) : node[c].n_walkers = 1

\* the first walker stays in the seed's region and the second does not, or
\* the first leaves it and the second is at least as near to the seed image
\* as to the first walker's image
S4_Separated ==
    \/ /\ image_distance(Image(walkers[1].state), Image(init_state))
              <= max_region_sizes[1]
       /\ image_distance(Image(walkers[2].state), Image(init_state))
              > max_region_sizes[1]
    \/ /\ image_distance(Image(walkers[1].state), Image(init_state))
              > max_region_sizes[1]
       /\ image_distance(Image(walkers[2].state), Image(init_state))
              <= image_distance(Image(walkers[2].state), Image(walkers[1].state))

\* C15 as stated: in scenario S4 the tree has two leaves under the root and
\* each holds exactly one walker, wherever the two images lie
C15_S4Branching == S4_Placed => S4_TwoLeavesOneEach

\* C15 amended: in scenario S4 the tree has two leaves with one walker each
\* exactly when the first walker stays in the seed's region and the second
\* does not, or the first leaves it and the second is at least as near to
\* the seed image as to the first walker's image
C15_S4BranchingAmended == S4_Placed => (S4_TwoLeavesOneEach <=> S4_Separated)

\* S4 placed with two leaves of one walker each
C15_Witness == S4_Placed /\ S4_Separated /\ S4_TwoLeavesOneEach

\* the tree T with its topology, images and regions kept and every node's
\* per-cycle bookkeeping as on a tree that never ran a cycle
Pristine(T) ==
    [T EXCEPT !.node = [id \in DOMAIN T.node |-> NewNodeAttrs(T.node[id].image_idx)],
              !.walker_weights = <<>>,
              !.walker_assignments = <<>>]

\* the per-cycle bookkeeping of the nodes of a tree
Bookkeeping(nd) ==
    [id \in DOMAIN nd |->
        [n_walkers |-> nd[id].n_walkers, walker_idxs |-> nd[id].walker_idxs,
         n_mergeable |-> nd[id].n_mergeable, n_cloneable |-> nd[id].n_cloneable,
         balance |-> nd[id].balance]]

C21_Aborted == last_call \in {"balance_tree", "resample"} /\ err # "none"

\* C21: a cycle that aborts while balancing leaves the topology, the images
\* and the regions as its placement left them, and the placement that
\* follows an aborted cycle leaves the counts, capacities and balances that
\* the same placement leaves on a tree of the same topology that never ran
\* the aborted cycle
C21_ReentryAfterError ==
    [][/\ (last_call = "place_walkers" /\ last_call' = "balance_tree" /\ err' # "none")
          => (nodes' = nodes /\ images' = images /\ regions' = regions
              /\ DOMAIN node' = DOMAIN node)
       /\ (C21_Aborted /\ last_call' = "place_walkers" /\ err' = "none")
          => Bookkeeping(node')
               = Bookkeeping(place_walkers(Pristine(Tree), walkers').T.node)]_vars

\* the walkers that a plan keeps in a merge: those with a non-empty group
Keepers(p) ==
    {k \in 1..Len(p.merge_groups) : p.merge_groups[k] # <<>>}

\* C22: a resampling cycle that has to merge two walkers of one leaf (same
\* state, weights summing to at most pmax, delta_walkers = -1) returns a
\* plan in which one keeper has been drawn, the draw being the only random
\* choice of the cycle and the one the seed is meant to fix
C22_KeeperDrawn ==
    (/\ last_call = "resample"
     /\ delta_walkers = 0 - 1
     /\ Len(walkers) = 2
     /\ walkers[1].state = walkers[2].state
     /\ walkers[1].weight + walkers[2].weight <= pmax)
    => /\ plan # None
       /\ Cardinality(Keepers(Val(plan))) = 1

\* the fields of the nodes that balancing may write, set to one value
Unbalanced(nd) ==
    [id \in DOMAIN nd |-> [nd[id] EXCEPT !.balance = 0]]

\* C23: a balance_tree call leaves the node list, the edges (the node
\* identifiers), the image table, the region list and the walker tables as
\* they were, and on every node every field but balance
C23_DecideFrame ==
    [][(last_call = "place_walkers" /\ last_call' = "balance_tree")
       => /\ nodes' = nodes
          /\ DOMAIN node' = DOMAIN node
          /\ images' = images
          /\ regions' = regions
          /\ walker_weights' = walker_weights
          /\ walker_assignments' = walker_assignments
          /\ Unbalanced(node') = Unbalanced(node)]_vars

\* balance_tree has written a non-zero balance below the root of a tree
\* that holds walkers
C23_Witness ==
    /\ last_call = "balance_tree"
    /\ node[ROOT_NODE].n_walkers > 0
    /\ \E id \in DOMAIN node : id # ROOT_NODE /\ node[id].balance # 0

\* the 0-based walker indices squashed by the merge group of keeper k
GroupIdxs(p, k) ==
    {p.merge_groups[k][j] : j \in 1..Len(p.merge_groups[k])}

\* the merge groups of a plan under the single method: one keeper per leaf
\* at most, squashed walkers in the leaf of their keeper, groups disjoint
\* and without repetitions, and no squashed walker a keeper itself
SingleMergeWellFormed(p) ==
    /\ \A k1, k2 \in Keepers(p) :
          walker_assignments[k1] = walker_assignments[k2] => k1 = k2
    /\ \A k \in Keepers(p) : \A i \in GroupIdxs(p, k) :
          /\ (i + 1) \in 1..Len(walker_assignments)
          /\ walker_assignments[i + 1] = walker_assignments[k]
          /\ (i + 1) \notin Keepers(p)
    /\ \A k \in Keepers(p) :
          Cardinality(GroupIdxs(p, k)) = Len(p.merge_groups[k])
    /\ \A k1, k2 \in Keepers(p) :
          k1 # k2 => GroupIdxs(p, k1) \cap GroupIdxs(p, k2) = {}

WalkersIn(leaf) ==
    {i \in 1..Len(walker_assignments) : walker_assignments[i] = leaf}

\* the leaves that hold walkers after a placement
OccupiedLeaves ==
    {walker_assignments[i] : i \in 1..Len(walker_assignments)}

RECURSIVE WeightOf(_)
\* the weight of a set of walkers
WeightOf(S) ==
    IF S = {} THEN 0
    ELSE LET i == CHOOSE x \in S : TRUE
         IN walkers[i].weight + WeightOf(S \ {i})

\* the largest number of walkers of a leaf, lightest first, whose weights
\* sum to at most pmax
LargestPrefix(leaf) ==
    LET fits == {n \in 0..Cardinality(WalkersIn(leaf)) :
                    \E S \in SUBSET WalkersIn(leaf) :
                        Cardinality(S) = n /\ WeightOf(S) <= pmax}
    IN CHOOSE n \in fits : \A m \in fits : m <= n

\* k - 1 for a largest prefix k >= 2, and 0 for k <= 1
ExpectedMergeable(leaf) ==
    IF LargestPrefix(leaf) >= 2 THEN LargestPrefix(leaf) - 1 ELSE 0

\* C25: after a placement that put every walker into a leaf, the mergeable
\* counts have been computed (the computation has not failed on an unknown
\* name) and every leaf holding walkers has n_mergeable = k - 1 for the
\* largest prefix k >= 2 of its ascending weights that sums to at most
\* pmax, and 0 for k <= 1
C25_MergeableCount ==
    (last_call = "place_walkers" /\ Len(walker_assignments) = Len(walkers))
    => /\ err # "NameError"
       /\ \A leaf \in OccupiedLeaves :
             node[leaf].n_mergeable = ExpectedMergeable(leaf)

\* the largest c >= 0 with w / (c + 1) >= pmin and c + 1 <= max_num_walkers
\* (no upper limit when max_num_walkers is None), 0 when there is none
ExpectedClones(w) ==
    LET ok == {c \in 0..w : /\ w >= (c + 1) * pmin
                            /\ (max_num_walkers # None
                                  => c + 1 <= Val(max_num_walkers))}
    IN IF ok = {} THEN 0 ELSE CHOOSE c \in ok : \A d \in ok : d <= c

RECURSIVE ExpectedCloneable(_)
\* the sum of the clone counts of a set of walkers
ExpectedCloneable(S) ==
    IF S = {} THEN 0
    ELSE LET i == CHOOSE x \in S : TRUE
         IN ExpectedClones(walkers[i].weight) + ExpectedCloneable(S \ {i})

\* no leaf holds more than one walker
OneWalkerPerLeaf ==
    \A i, j \in 1..Len(walker_assignments) :
        walker_assignments[i] = walker_assignments[j] => i = j

\* C26: after a placement that put every walker into a leaf of its own, the
\* placement has ended without error and every leaf holding a walker has
\* n_cloneable = the sum over its walkers of the largest c with
\* w / (c + 1) >= pmin and c + 1 <= max_num_walkers, for the max_num_walkers
\* the tree was built with
C26_CloneableCount ==
    (/\ last_call = "place_walkers"
     /\ walkers # <<>>
     /\ Len(walker_assignments) = Len(walkers)
     /\ OneWalkerPerLeaf)
    => /\ err = "none"
       /\ \A leaf \in OccupiedLeaves :
             node[leaf].n_cloneable = ExpectedCloneable(WalkersIn(leaf))

\* the levels at which a walker assigned with result a is farther from its
\* nearest child than the region size and the parent has room for a child
RoomyLevels(a) ==
    {l \in 0..(n_levels - 1) :
        /\ a.dists[l + 1] > max_region_sizes[l + 1]
        /\ Cardinality({id \in DOMAIN node :
                           /\ Len(id) = l + 1
                           /\ Prefix(id, l) = Prefix(a.assignment, l)})
             < max_n_regions[l + 1]}

\* the identifiers of a new child number k of parent and of its
\* single-child spine down to depth n_levels
SpineIds(parent, k) ==
    {parent \o <<k>> \o [i \in 1..j |-> 0] :
        j \in 0..(n_levels - Len(parent) - 1)}

\* the effect on the tree of placing one walker that branches at level l
C27_Branch(w, a, l) ==
    LET parent == Prefix(a.assignment, l)
        k == Cardinality({id \in DOMAIN node :
                             Len(id) = l + 1 /\ Prefix(id, l) = parent})
        leaf == parent \o <<k>> \o [i \in 1..(n_levels - l - 1) |-> 0]
    IN /\ DOMAIN node' = DOMAIN node \cup SpineIds(parent, k)
       /\ SpineIds(parent, k) \cap DOMAIN node = {}
       /\ Len(nodes') = Len(nodes) + (n_levels - l)
       /\ images' = Append(images, Image(w.state))
       /\ regions' = Append(regions, leaf)
       /\ \A id \in SpineIds(parent, k) : node'[id].image_idx = Len(images)
       /\ walker_assignments' = <<leaf>>
       /\ new_branches' = <<[distance |-> a.dists[l + 1], branching_level |-> l,
                            new_leaf_id |-> leaf, image |-> Image(w.state)]>>

\* the effect on the tree of placing one walker that does not branch
C27_NoBranch(a) ==
    /\ nodes' = nodes
    /\ DOMAIN node' = DOMAIN node
    /\ images' = images
    /\ regions' = regions
    /\ walker_assignments' = <<a.assignment>>
    /\ new_branches' = <<>>

\* the effect of placing one walker, from the result of assign on the tree
\* before the placement
C27_One(w, a) ==
    IF RoomyLevels(a) = {} THEN C27_NoBranch(a)
    ELSE C27_Branch(w, a, CHOOSE l \in RoomyLevels(a) :
                              \A m \in RoomyLevels(a) : l <= m)

ClonesByChildWeight(p) ==
    /\ Len(p.walkers_num_clones) = Len(walkers)
    /\ \A k \in 1..Len(walkers) :
          p.walkers_num_clones[k] > 0
          => walkers[k].weight >= (p.walkers_num_clones[k] + 1) * pmin
    /\ SumSeq(p.walkers_num_clones) = 1
          => \A k, j \in 1..Len(walkers) :
                 p.walkers_num_clones[k] = 1
                 => walkers[k].weight >= walkers[j].weight

\* C28: a cycle with delta_walkers = n > 0 over walkers that all lie in one
\* leaf (one state), one of which can split, returns a plan that merges
\* nothing and assigns exactly n clones, each to a walker whose child
\* weight after the clone is the highest among the candidates and at least
\* pmin (S3: two walkers of equal weight, delta +1, one of them cloned once)
C28_CloneDecision ==
    (/\ last_call \in {"balance_tree", "resample"}
     /\ delta_walkers > 0
     /\ delta_walkers <= MaxClonesByPmin
     /\ walkers # <<>>
     /\ \A i, j \in 1..Len(walkers) : walkers[i].state = walkers[j].state)
    => /\ plan # None
       /\ Keepers(Val(plan)) = {}
       /\ SumSeq(Val(plan).walkers_num_clones) = delta_walkers
       /\ ClonesByChildWeight(Val(plan))

\* the capacity of a child for a parental balance B: n_mergeable for a
\* debit, n_cloneable for a credit
Capacity(child, B) ==
    IF B < 0 THEN node[child].n_mergeable ELSE node[child].n_cloneable

Min2(a, b) == IF a <= b THEN a ELSE b

Abs(a) == IF a < 0 THEN 0 - a ELSE a

RECURSIVE ExpectedShares(_, _, _, _)
\* the shares of the children from child i on when `remaining` (> = 0) of
\* |B| is still to dispense: each child in identifier order takes
\* min(its capacity, remaining), signed as B
ExpectedShares(ids, B, i, remaining) ==
    IF i > Len(ids) THEN <<>>
    ELSE <<node[ids[i]].n_walkers
             + (IF B < 0 THEN 0 - Min2(Capacity(ids[i], B), remaining)
                ELSE Min2(Capacity(ids[i], B), remaining))>>
         \o ExpectedShares(ids, B, i + 1,
                           remaining - Min2(Capacity(ids[i], B), remaining))

\* the total capacity of the children of the root for a balance B
RootCapacity(B) ==
    SumSeq([i \in 1..Len(children(Tree, ROOT_NODE)) |->
               Capacity(children(Tree, ROOT_NODE)[i], B)])

\* balance_tree has dispensed a non-zero balance among several children of
\* the root
C29_Dispensed ==
    /\ last_call = "balance_tree"
    /\ delta_walkers # 0
    /\ Len(children(Tree, ROOT_NODE)) >= 2

\* C29: the dispensation of a non-zero balance B of the root among two or
\* more children whose capacities can take it succeeds and gives every
\* child, in identifier order, its n_walkers plus or minus min(its capacity,
\* what remains), so that exactly |B| is dispensed
C29_DispensationExact ==
    (C29_Dispensed /\ RootCapacity(delta_walkers) >= Abs(delta_walkers))
    => /\ dispense_parental_shares(Tree, delta_walkers,
                                   children(Tree, ROOT_NODE)).err = "none"
       /\ dispense_parental_shares(Tree, delta_walkers,
                                   children(Tree, ROOT_NODE)).children_shares
            = ExpectedShares(children(Tree, ROOT_NODE), delta_walkers, 1,
                             Abs(delta_walkers))

\* C30: the dispensation of a non-zero balance B of the root among two or
\* more children ends, after one visit of each child, either without error
\* or, exactly when the total capacity of the children is smaller than |B|,
\* with the error that the children cannot pay or accept it (a ValueError)
C30_DispensationEnds ==
    C29_Dispensed
    => dispense_parental_shares(Tree, delta_walkers,
                                children(Tree, ROOT_NODE)).err
         = (IF RootCapacity(delta_walkers) >= Abs(delta_walkers)
            THEN "none" ELSE "ValueError")

\* C31: the dispensation of a balance of 0 of the root among two or more
\* children ends without error and gives every child, in identifier
\* order, its n_walkers as shares (an adjustment of 0)
C31_ZeroDispensation ==
    (/\ last_call = "balance_tree"
     /\ delta_walkers = 0
     /\ Len(children(Tree, ROOT_NODE)) >= 2)
    => /\ dispense_parental_shares(Tree, 0, children(Tree, ROOT_NODE)).err = "none"
       /\ dispense_parental_shares(Tree, 0,
                                   children(Tree, ROOT_NODE)).children_shares
            = [i \in 1..Len(children(Tree, ROOT_NODE)) |->
                  node[children(Tree, ROOT_NODE)[i]].n_walkers]

\* C32: balancing a root that has exactly one child ends without error and
\* leaves on the child the balance of the root, whatever its sign
C32_SingleChild ==
    (last_call = "balance_tree" /\ Len(children(Tree, ROOT_NODE)) = 1)
    => /\ node[children(Tree, ROOT_NODE)[1]].balance = delta_walkers
       /\ propagate_and_balance_shares(Tree, delta_walkers,
                                       children(Tree, ROOT_NODE)).err = "none"

\* the children of a node, as a set
ChildrenOf(id) ==
    {c \in DOMAIN node : Len(c) = Len(id) + 1 /\ Prefix(c, Len(id)) = id}

\* C33: after a balance_tree call whose delta_walkers the ensemble can
\* realise, the balances of the children of every interior node sum to the
\* balance of the node
C33_ChildrenBalanceSum ==
    (last_call = "balance_tree" /\ walkers # <<>> /\ ~Unrealisable)
    => \A id \in Interior : SumOver(ChildrenOf(id), "balance") = node[id].balance

\* the shares of the children of the root before any adjustment
RootShares ==
    [c \in ChildrenOf(ROOT_NODE) |-> node[c].n_walkers]

\* the children of the root that can donate and that can accept a share
Donors == {c \in ChildrenOf(ROOT_NODE) : node[c].n_mergeable >= 1}
Acceptors == {c \in ChildrenOf(ROOT_NODE) : node[c].n_cloneable >= 1}

\* a donor with the most shares can give to an acceptor with the fewest
ValidPair ==
    /\ Donors # {}
    /\ Acceptors # {}
    /\ \E d \in Donors : \E a \in Acceptors : RootShares[d] > RootShares[a]

\* the round a picks donor d, acceptor a and moves amount n between them
BestDonation(d, a, n) ==
    /\ d \in Donors
    /\ \A c \in Donors : RootShares[c] <= RootShares[d]
    /\ a \in Acceptors
    /\ \A c \in Acceptors : RootShares[c] >= RootShares[a]
    /\ n = Min2((RootShares[d] - RootShares[a]) \div 2, node[d].n_mergeable)

\* balance_tree has met a root with two or more children
C34_Siblings ==
    /\ last_call = "balance_tree"
    /\ Len(children(Tree, ROOT_NODE)) >= 2

\* C34: a rebalancing round over the children of the root ends without
\* error; with a valid pair it names as donor a child with the most shares
\* among those with a mergeable walker, as acceptor a child with the fewest
\* shares among those with a cloneable slot, and as amount
\* min(floor((donor shares - acceptor shares) / 2), donor n_mergeable);
\* without one it names no pair and an amount of 0
C34_DonationRound ==
    C34_Siblings
    => LET r == gen_best_donation(Tree, RootShares)
       IN /\ r.err = "none"
          /\ IF ValidPair
             THEN /\ r.donor_node_id # None
                  /\ r.acceptor_node_id # None
                  /\ r.donation_amount # None
                  /\ BestDonation(Val(r.donor_node_id), Val(r.acceptor_node_id),
                                  Val(r.donation_amount))
             ELSE r.donation_amount = Some(0)

\* C35: rebalancing the children of the root when no valid (donor,
\* acceptor) pair exists ends without error and with a net balance of 0
\* for every child
C35_RebalancingEnds ==
    (C34_Siblings /\ ~ValidPair)
    => LET b == balance_children_shares(Tree, RootShares)
       IN /\ b.err = "none"
          /\ b.children_net_balances = [c \in ChildrenOf(ROOT_NODE) |-> 0]

\* the leaves whose walker_idxs hold walkers
LeavesWithWalkers ==
    {id \in DOMAIN node : Len(id) = n_levels /\ node[id].walker_idxs # <<>>}

\* C36: for the weights of every leaf that holds walkers and every n from
\* 1 to the count the single method computes for them, the merge groups
\* the single method decides for a balance of -n are found: the n + 1
\* lowest weights sum to at most pmax
C36_MergeNeverFails ==
    \A leaf \in LeavesWithWalkers :
        \A n \in 1..calc_squashable_walkers_single_method(
                        LeafWeights(Tree, leaf), pmax) :
            LET d == decide_merge_groups_single_method(
                         LeafWeights(Tree, leaf), 0 - n, pmax)
            IN /\ d.err = "none"
               /\ d.result
               /\ Len(d.merge_groups[1]) = n + 1

\* after a placement a leaf holds walkers that the single method counts as
\* one possible merge
C36_Witness ==
    /\ last_call = "place_walkers"
    /\ \E leaf \in LeavesWithWalkers :
          calc_squashable_walkers_single_method(LeafWeights(Tree, leaf), pmax) = 1

\* the leaves of the tree
Leaves == {id \in DOMAIN node : Len(id) = n_levels}

\* as many leaves as images as regions, and the region list holds the
\* leaves, each once
C37_Tables ==
    /\ Cardinality(Leaves) = Len(images)
    /\ Len(regions) = Len(images)
    /\ {regions[i] : i \in 1..Len(regions)} = Leaves
    /\ \A i, j \in 1..Len(regions) : regions[i] = regions[j] => i = j

\* a place_walkers call returns one record per leaf it added, in the order
\* of the regions and images it appended
C37_Records ==
    (last_call' = "place_walkers" /\ assigned' = None)
    => /\ Len(new_branches') = Cardinality(Leaves' \ Leaves)
       /\ Len(regions') = Len(regions) + Len(new_branches')
       /\ \A b \in 1..Len(new_branches') :
             /\ new_branches'[b].new_leaf_id \in Leaves' \ Leaves
             /\ new_branches'[b].new_leaf_id = regions'[Len(regions) + b]
             /\ new_branches'[b].image = images'[Len(images) + b]

\* C37: in every state the number of leaves, of images and of regions are
\* equal and the region list holds exactly the leaves without repetition;
\* every place_walkers call returns exactly one branch record per leaf it
\* added, with that leaf as new_leaf_id and the appended image as image
C37_LeavesImagesRegions ==
    []C37_Tables /\ [][C37_Records]_vars

\* a placement of two walkers has added two leaves and returned two records
C37_Witness ==
    /\ last_call = "place_walkers"
    /\ Len(new_branches) = 2
    /\ Len(regions) = 3
    /\ new_branches[1].new_leaf_id # new_branches[2].new_leaf_id

\* the nodes under which the current ensemble has no walker
EmptyRegions ==
    {id \in DOMAIN node :
        \A i \in 1..Len(walker_assignments) : ~IsPrefixSeq(id, walker_assignments[i])}

\* C38: after a placement, and after the balance_tree call that follows it,
\* every node under which the ensemble has no walker has n_mergeable = 0,
\* n_cloneable = 0 and a balance of 0
C38_EmptyRegions ==
    (/\ last_call \in {"place_walkers", "balance_tree"}
     /\ Len(walker_assignments) = Len(walkers))
    => \A id \in EmptyRegions :
          /\ node[id].n_mergeable = 0
          /\ node[id].n_cloneable = 0
          /\ node[id].balance = 0

====
